---- MODULE Spec2Model ----
(***************************************************************************)
(* Model of the hutoma client: the request builder (_prepare_request),    *)
(* the dispatcher (BaseHutoma._request with handle_redirect and the       *)
(* retry loop), the status mapping (_raise_response_exceptions), the      *)
(* redirect resolution (_raise_redirect_exceptions), the JSON entry       *)
(* point (request_json) with the session's cookie store and modhash, the  *)
(* domain objects of objects.py and normalize_url of helpers.py.          *)
(*                                                                         *)
(* One call runs from StartCall (the request is built) through one step   *)
(* per handler.request, the handler's reply being the environment's       *)
(* choice, until it returns or raises (pc = "done").  SpecPrepare,        *)
(* SpecNormalize and SpecObjects apply _prepare_request, normalize_url    *)
(* and the objects' methods to arguments drawn in the initial state.      *)
(***************************************************************************)
EXTENDS Integers, Sequences, FiniteSets, TLC

VARIABLES
    cookies,             \* self.http.cookies: the session's cookie store
    modhash,             \* self.modhash
    caller_map,          \* the dict object the caller holds and passes as data
    pc,                  \* "idle" (no call yet), "send" (in handle_redirect), "done"
    call,                \* the arguments of the call in progress
    request,             \* the Request object built by _prepare_request
    remaining_attempts,  \* the retry loop's counter
    response,            \* the handler's last reply
    sent,                \* the request the handler last received
    hist,                \* the terminal status of each attempt of this call
    outcome,             \* how the call ended
    obj,                 \* an expression over domain objects and its result
    norm,                \* a URL and what normalize_url made of it
    config               \* self.config: the session's Config

vars == <<cookies, modhash, caller_map, pc, call, request, remaining_attempts,
          response, sent, hist, outcome, obj, norm, config>>

\* the variables the session's calls leave alone
aux == <<obj, norm, config>>

-----------------------------------------------------------------------------
(* Bounds and value domains *)

MaxPath == 1             \* longest URL path of the model, in segments

MaxUrlTokens == 4        \* longest URL text given to normalize_url, in tokens

Seg == {"a", "b"}

\* A URL is its path below the API host, a non-empty sequence of segments.
Urls == UNION {[1..n -> Seg] : n \in 1..MaxPath}

\* The URLs a call starts from.
StartUrls == {<<"a">>}

NoEntry == "<none>"      \* a key that is absent from a dict, or Python's None

\* a 'kind' entry that is a JSON array or object: no hashable value
Unhashable == "<unhashable>"

\* dicts are total functions over their possible keys, NoEntry marking absence
DataKeys == {"api_type", "uh"}
ModhashValues == {"", "m1", "m2"}
Truthy(v) == v # NoEntry /\ v # ""

EmptyDict == [k \in DataKeys |-> NoEntry]
DictLen(d) == Cardinality({k \in DOMAIN d : d[k] # NoEntry})

\* dict.setdefault(k, v)
SetDefault(d, k, v) == IF d[k] # NoEntry THEN d ELSE [d EXCEPT ![k] = v]

\* the dicts a caller builds afresh
FreshDicts == {EmptyDict, [EmptyDict EXCEPT !["uh"] = "own"]}

CookieNames == {"c1"}
EmptyJar == [c \in CookieNames |-> NoEntry]
Jars == [CookieNames -> {NoEntry, "v"}]

\* CookieJar.update(other): every cookie of other is set in the jar
JarUpdate(jar, other) ==
    [c \in CookieNames |-> IF other[c] # NoEntry THEN other[c] ELSE jar[c]]


-----------------------------------------------------------------------------
(* HTTP statuses and the handler's replies *)

Statuses == {200, 204, 301, 302, 304, 307, 403, 404, 500, 502, 503, 504}

RETRY_CODES == {502, 503, 504}

RedirectCodes == {301, 302, 307}

\* A Location header: absent, an absolute path, or a relative reference
\* (the empty reference, or one segment that replaces the last one).
NoLocation == [present |-> FALSE, abs |-> FALSE, path |-> <<>>]
Locations ==
    {NoLocation}
      \cup {[present |-> TRUE, abs |-> TRUE, path |-> p] : p \in Urls}
      \cup {[present |-> TRUE, abs |-> FALSE, path |-> p] :
                p \in {<<>>} \cup {<<s>> : s \in Seg}}

\* requests.compat.urljoin(base, location)
urljoin(base, loc) ==
    IF loc.abs THEN loc.path
    ELSE IF loc.path = <<>> THEN base
    ELSE SubSeq(base, 1, Len(base) - 1) \o loc.path

\* A response body.  shape: "empty" (the empty string), "invalid" (not JSON),
\* "list" or "map" (a JSON array or object).  For an object: kind is its
\* 'kind' entry, data the type of its 'data' entry, modhash what that entry
\* holds under (or as) 'modhash'; wrap says the object is {"json": <that
\* object>}, sib that the wrapper has further keys.  ent is the HTML entity
\* the text contains.
Body(shape, kind, data, mh, wrap, sib, ent) ==
    [shape |-> shape, kind |-> kind, data |-> data, modhash |-> mh,
     wrap |-> wrap, sib |-> sib, ent |-> ent]

EmptyBody == Body("empty", NoEntry, NoEntry, NoEntry, FALSE, FALSE, "none")
MapBody(kind, data, mh) == Body("map", kind, data, mh, FALSE, FALSE, "none")

Bodies ==
    {EmptyBody,
     Body("invalid", NoEntry, NoEntry, NoEntry, FALSE, FALSE, "none"),
     Body("list", NoEntry, NoEntry, NoEntry, FALSE, FALSE, "none"),
     MapBody(NoEntry, NoEntry, NoEntry),
     MapBody(NoEntry, "list", "m1"),
     MapBody(NoEntry, "num", NoEntry),
     MapBody("ai", "map", "m1"),
     MapBody("zz", "map", "m2"),
     MapBody(Unhashable, NoEntry, NoEntry),
     Body("map", NoEntry, "map", "m1", TRUE, FALSE, "none"),
     Body("map", NoEntry, "map", "m2", TRUE, TRUE, "none"),
     Body("map", NoEntry, "map", "m1", FALSE, FALSE, "named"),
     Body("map", NoEntry, "map", "m1", FALSE, FALSE, "numeric"),
     MapBody(NoEntry, "map", NoEntry)}
      \cup {MapBody(NoEntry, "map", m) : m \in ModhashValues}

\* What handler.request hands back: a response, or an exception of the
\* transport (a timeout), which is no HTTPException.
Reply(status, url, loc, jar, body, timeout) ==
    [status |-> status, url |-> url, location |-> loc, cookies |-> jar,
     body |-> body, timeout |-> timeout]

NoResponse == Reply(0, <<>>, NoLocation, EmptyJar, EmptyBody, FALSE)

\* The replies the handler can give to a request for url: the transport's
\* failure, a redirect with its Location and a cookie, a response with a body (200), or
\* any other status.
TimeoutReplies(url) == {Reply(0, url, NoLocation, EmptyJar, EmptyBody, TRUE)}

\* a redirect sets a cookie
RedirectJar == [c \in CookieNames |-> "v"]

RedirectReplies(url) ==
    {Reply(s, url, l, RedirectJar, EmptyBody, FALSE) :
        s \in RedirectCodes, l \in Locations}

TerminalReplies(url) ==
    {Reply(200, url, NoLocation, j, b, FALSE) : j \in Jars, b \in Bodies}
      \cup {Reply(s, url, NoLocation, j, EmptyBody, FALSE) :
                s \in Statuses \ (RedirectCodes \cup {200}), j \in Jars}

\* the responses: which of them is a redirect is the client's decision
ResponseReplies(url) == RedirectReplies(url) \cup TerminalReplies(url)

HandlerReplies(url) == TimeoutReplies(url) \cup ResponseReplies(url)

-----------------------------------------------------------------------------
(* internal.py *)

\* _prepare_request, the method: an explicit method wins, else POST when
\* data or files is truthy, else GET.
DataTruthy(data) ==
    \/ data.t \in {"true", "raw"}
    \/ data.t = "map" /\ DictLen(data.m) > 0

\* the method chosen without looking at files
PrepareMethodNoFiles(method, data, files) ==
    IF method # NoEntry THEN method
    ELSE IF DataTruthy(data) THEN "POST"
    ELSE "GET"

PrepareMethod(method, data, files) ==
    IF method # NoEntry THEN method
    ELSE IF DataTruthy(data) \/ files THEN "POST"
    ELSE "GET"

\* the defaults assigned instead of set by setdefault
InjectDefaultsOverwrite(d, auth, mh) ==
    IF auth THEN d
    ELSE LET d1 == [d EXCEPT !["api_type"] = "json"]
         IN  IF Truthy(mh) THEN [d1 EXCEPT !["uh"] = mh] ELSE d1

\* _prepare_request, the body: data.setdefault('api_type', 'json') and
\* data.setdefault('uh', session.modhash) on the caller's dict.
InjectDefaults(d, auth, mh) ==
    IF auth THEN d
    ELSE LET d1 == SetDefault(d, "api_type", "json")
         IN  IF Truthy(mh) THEN SetDefault(d1, "uh", mh) ELSE d1

\* the status mapping with 404 left to the generic case
RaiseResponseExceptionsNo404(status) ==
    IF status = 403 THEN "Forbidden"
    ELSE IF 400 <= status /\ status < 600 THEN "HTTPException"
    ELSE NoEntry

\* requests' Response.raise_for_status raises for 4xx and 5xx only
RaiseForStatus(status) == 400 <= status /\ status < 600

\* _raise_response_exceptions: the exception raised for a terminal status
_raise_response_exceptions(status) ==
    IF status = 403 THEN "Forbidden"
    ELSE IF status = 404 THEN "NotFound"
    ELSE IF RaiseForStatus(status) THEN "HTTPException"
    ELSE NoEntry

\* What _raise_redirect_exceptions gives handle_redirect: the new URL, NoUrl
\* for None, or the KeyError of headers['location'].
NoUrl == <<>>
NewUrl(exc, url) == [exc |-> exc, url |-> url]

\* _raise_redirect_exceptions without 307 in its list
RaiseRedirectExceptionsNo307(resp) ==
    IF resp.status \notin {301, 302} THEN NewUrl(NoEntry, NoUrl)
    ELSE IF ~resp.location.present THEN NewUrl("KeyError", NoUrl)
    ELSE NewUrl(NoEntry, urljoin(resp.url, resp.location))

_raise_redirect_exceptions(resp) ==
    IF resp.status \notin RedirectCodes THEN NewUrl(NoEntry, NoUrl)
    ELSE IF ~resp.location.present THEN NewUrl("KeyError", NoUrl)
    ELSE NewUrl(NoEntry, urljoin(resp.url, resp.location))

\* handle_redirect's loop goes on (or dies) after resp: url is set, or the
\* lookup raised
IsRedirect(resp) ==
    LET new == _raise_redirect_exceptions(resp)
    IN  new.exc # NoEntry \/ new.url # NoUrl


\* The data argument of a call: None, True, a raw string or a dict.
NoData == [t |-> "none", m |-> EmptyDict]
DataArg(t, m) == [t |-> t, m |-> m]

\* _prepare_request: the Request built for a call.  data is the argument as
\* passed; a dict is the caller's own object, so the defaults set in it
\* stay in the caller's dict.  ctype is TRUE when Content-Type was
\* defaulted to application/json (a non-GET request whose data is no dict).
_prepare_request(mh, url, data, auth, files, method) ==
    LET m == PrepareMethod(method, data, files)
        d0 == IF data.t = "true" THEN DataArg("map", EmptyDict) ELSE data
        d1 == IF d0.t = "map"
              THEN DataArg("map", InjectDefaults(d0.m, auth, mh))
              ELSE d0
    IN  IF m = "GET"
        THEN [method |-> m, url |-> url, auth |-> auth, data |-> NoData,
              files |-> FALSE, ctype |-> FALSE]
        ELSE [method |-> m, url |-> url, auth |-> auth, data |-> d1,
              files |-> files, ctype |-> d0.t # "map"]

NoRequest == [method |-> "GET", url |-> <<>>, auth |-> FALSE, data |-> NoData,
              files |-> FALSE, ctype |-> FALSE]

\* request.prepare(): what the handler receives, the session's cookies included
Prepared(req, jar) ==
    [method |-> req.method, url |-> req.url, auth |-> req.auth,
     data |-> req.data, files |-> req.files, ctype |-> req.ctype,
     cookies |-> jar]

NoSent == Prepared(NoRequest, EmptyJar)

-----------------------------------------------------------------------------
(* __init__.py: Config, the JSON hook and request_json's parsing *)

\* Config.by_kind
by_kind == {"ai_list", "ai", "folder", "chat", "training"}

\* Config.API_PATHS
API_PATHS == {"ai_list", "ai", "folder", "chat", "speak", "training"}

\* Config.__init__, lines 79-83: the class by_kind maps each kind to
ClassOfKind(k) ==
    CASE k = "ai_list" -> "AIList"
      [] k = "ai" -> "AI"
      [] k = "folder" -> "Folder"
      [] k = "chat" -> "Chat"
      [] k = "training" -> "Training"

\* line 84: dict((value, key) for (key, value) in six.iteritems(by_kind))
Inverse(f) ==
    [v \in {f[k] : k \in DOMAIN f} |-> CHOOSE k \in DOMAIN f : f[k] = v]

\* Config.__init__: the configuration a session is created with
Config ==
    LET kinds == [k \in by_kind |-> ClassOfKind(k)]
    IN  [api_url |-> "https://api_domain",
         API_PATHS |-> API_PATHS,
         by_kind |-> kinds,
         by_object |-> Inverse(kinds),
         timeout |-> "timeout",
         cache_timeout |-> "cache_timeout",
         user_key |-> "user_key"]

\* a lookup that enters the missing key, as dict.setdefault would
ByKindLookupInserting(cfg, kind) ==
    [cfg EXCEPT !.by_kind =
        [k \in DOMAIN @ \cup {kind} |->
            IF k \in DOMAIN @ THEN @[k] ELSE "HutomaObject"]]

\* _json_hutoma_objecter, line 243: self.config.by_kind[json_data['kind']]
\* reads a plain dict, which a missing key leaves as it is (KeyError)
ByKindLookup(cfg, kind) == cfg

\* the configuration after the hook ran on the object d: without a 'kind'
\* entry, or with an unhashable one, by_kind is not reached
ConfigAfterHook(cfg, d) ==
    IF d.kind \in {NoEntry, Unhashable} THEN cfg ELSE ByKindLookup(cfg, d.kind)

\* json.loads calls the hook on text: it is no empty response, a JSON
\* object, and as_objects is set
HookRuns(text, as_objects) ==
    text.shape = "map" /\ as_objects

\* A value computed by a step that may raise: exc is the exception's name
\* (NoEntry when none), val the value, warned whether a warning was emitted.
Ok(v) == [exc |-> NoEntry, val |-> v, warned |-> FALSE]
Raise(e) == [exc |-> e, val |-> EmptyBody, warned |-> FALSE]

\* HutomaObject.__init__ evaluates hutoma_session.config['info'] when no
\* info_url is given: Config.__getitem__ indexes API_PATHS.
from_api_response(d) ==
    IF "info" \in API_PATHS THEN Ok(d) ELSE Raise("KeyError")

\* _request.decode under re.sub('&([^;]+);', ...): a named entity is
\* replaced, any other match is no key of name2codepoint.
Decode(body) ==
    IF body.ent = "none" THEN Ok(body)
    ELSE IF body.ent = "named" THEN Ok([body EXCEPT !.ent = "decoded"])
    ELSE Raise("KeyError")

\* the hook without its unwrapping of {'json': ...}
JsonHutomaObjecterNoUnwrap(d) ==
    IF d.kind \in by_kind THEN from_api_response(d)
    ELSE IF d.kind = Unhashable THEN Raise("TypeError")
    ELSE Ok(d)

\* _json_hutoma_objecter on the object d (the hook runs on the inner
\* objects first, so on a wrapper's 'json' entry before the wrapper).  A
\* 'kind' that is no key of by_kind raises KeyError, which is caught; one
\* that is not hashable raises TypeError, which is not.
_json_hutoma_objecter(d) ==
    IF d.kind \in by_kind THEN from_api_response(d)
    ELSE IF d.kind = Unhashable THEN Raise("TypeError")
    ELSE IF d.wrap
         THEN [exc |-> NoEntry, val |-> [d EXCEPT !.wrap = FALSE, !.sib = FALSE],
               warned |-> d.sib]
         ELSE Ok(d)

\* json.loads(response, object_hook=hook)
JsonLoads(body, as_objects) ==
    IF body.shape \in {"invalid", "empty"} THEN Raise("ValueError")
    ELSE IF body.shape = "map" /\ as_objects THEN _json_hutoma_objecter(body)
    ELSE Ok(body)

\* request_json, lines 313-314: the session's modhash after the parsed value
\* data; 'modhash' in data['data'] and data['data']['modhash'] raise
\* TypeError when the 'data' entry is no dict.
HasModhash(data) ==
    /\ data.shape = "map"
    /\ ~data.wrap
    /\ data.data = "map"
    /\ data.modhash # NoEntry

\* the modhash taken from any parsed object that has one, wrapped or not
ModhashUpdateWrapped(data, mh) ==
    IF data.shape = "map" /\ data.data = "map" /\ data.modhash # NoEntry
    THEN Ok(data.modhash)
    ELSE Ok(mh)

ModhashUpdate(data, mh) ==
    IF data.shape # "map" \/ data.wrap \/ data.data = NoEntry THEN Ok(mh)
    ELSE IF data.data = "num" THEN Raise("TypeError")
    ELSE IF data.modhash = NoEntry THEN Ok(mh)
    ELSE IF data.data = "map" THEN Ok(data.modhash)
    ELSE Raise("TypeError")


-----------------------------------------------------------------------------
(* helpers.py *)

\* A URL text is a sequence of tokens: a name, a slash or the suffix .json
UrlTokens == {"y", "/", ".json"}

UrlTexts == UNION {[1..n -> UrlTokens] : n \in 0..MaxUrlTokens}

EndsWith(url, tok) == Len(url) > 0 /\ url[Len(url)] = tok

DropLast(url) == SubSeq(url, 1, Len(url) - 1)

\* normalize_url: one trailing .json is cut, then one trailing slash
normalize_url(url) ==
    LET u1 == IF EndsWith(url, ".json") THEN DropLast(url) ELSE url
    IN  IF EndsWith(u1, "/") THEN DropLast(u1) ELSE u1

\* norm: the URL given and the results of normalize_url applied to it and
\* then to each result in turn
Norm(url, out) == [url |-> url, out |-> out]

NoNorm == Norm(<<>>, <<>>)

-----------------------------------------------------------------------------
(* objects.py *)

Classes == {"HutomaObject", "AIList", "AI", "Folder", "Chat", "Speak", "Training"}

\* the subclasses of Editable
Editables == {"AI", "Folder"}

\* Config.by_object, the inverse of by_kind: the kind of a class
by_object(cls) ==
    CASE cls = "AIList" -> "ai_list"
      [] cls = "AI" -> "ai"
      [] cls = "Folder" -> "folder"
      [] cls = "Chat" -> "chat"
      [] cls = "Training" -> "training"
      [] OTHER -> NoEntry

\* Config.__getitem__: the exception of API_PATHS[key]
Config__getitem__(key) == IF key \in API_PATHS THEN NoEntry ELSE "KeyError"

Ids == {"abc", "xyz"}

\* the fields an info fetch returns
FetchedFields == {"id", "name"}

\* An instance: its class, the names in its __dict__, the value of
\* _has_fetched and of id
NewObject(cls) == [cls |-> cls, attrs |-> {}, has_fetched |-> FALSE, id |-> NoEntry]

\* What a step on an instance gives: the exception it raised, the instance
\* after it, the fetches and write requests it made, the cache evictions,
\* and its value
Step(exc, o, fetches, requests, evictions, value) ==
    [exc |-> exc, obj |-> o, fetches |-> fetches, requests |-> requests,
     evictions |-> evictions, value |-> value]

\* HutomaObject.__getattr__, entered for a name that is not in __dict__.
\* Its test reads self._has_fetched, which enters __getattr__ again when
\* that name is not set either, without end; a fetch (_populate(None,
\* True), through _get_json_dict) reads self.session, a name no code sets
\* (__init__ sets hutoma_session), which enters __getattr__ again too.
__getattr__(o, attr) ==
    IF "_has_fetched" \notin o.attrs
    THEN Step("RecursionError", o, 0, 0, 0, NoEntry)
    ELSE IF attr # "__setstate__" /\ ~o.has_fetched
    THEN IF "session" \notin o.attrs
         THEN Step("RecursionError", o, 0, 0, 0, NoEntry)
         ELSE LET o1 == [o EXCEPT !.attrs = @ \cup FetchedFields,
                                  !.has_fetched = TRUE]
              IN  Step(IF attr \in o1.attrs THEN NoEntry ELSE "AttributeError",
                       o1, 1, 0, 0, attr)
    ELSE Step("AttributeError", o, 0, 0, 0, NoEntry)

\* the attribute read self.attr
getattr(o, attr) ==
    IF attr \in o.attrs THEN Step(NoEntry, o, 0, 0, 0, attr)
    ELSE __getattr__(o, attr)

\* A payload: None, or a dict with an 'id' entry or without one
NoPayload == [given |-> FALSE, id |-> NoEntry]
Payload(id) == [given |-> TRUE, id |-> id]

\* HutomaObject._populate: _get_json_dict (line 89) and line 101 both
\* read self.session before any field is set
_populate(o, json_dict, fetch) ==
    LET s == getattr(o, "session")
        fetched == ~json_dict.given /\ fetch
        id == IF fetched THEN "abc" ELSE json_dict.id
        fields == IF fetched THEN FetchedFields
                  ELSE IF id # NoEntry THEN {"id"} ELSE {}
    IN  IF s.exc # NoEntry THEN Step(s.exc, o, 0, 0, 0, FALSE)
        ELSE Step(NoEntry,
                  [o EXCEPT !.attrs = @ \cup fields, !.id = id],
                  IF fetched THEN 1 ELSE 0, 0, 0,
                  fields # {} \/ fetch)

\* HutomaObject.__init__ (AI.__init__ passes no info_url on): line 30
\* evaluates config['info'] when no info_url is given, lines 31-33 set
\* four attributes, line 34 sets _has_fetched to what _populate returns
__init__(cls, json_dict, fetch, info_url) ==
    LET e == IF info_url /\ cls # "AI" THEN NoEntry
             ELSE Config__getitem__("info")
        o1 == [NewObject(cls) EXCEPT
                  !.attrs = {"_info_url", "hutoma_session",
                             "_underscore_names", "_uniq"}]
        p == _populate(o1, json_dict, fetch)
    IN  IF e # NoEntry THEN Step(e, NewObject(cls), 0, 0, 0, NoEntry)
        ELSE IF p.exc # NoEntry THEN p
        ELSE Step(NoEntry,
                  [p.obj EXCEPT !.attrs = @ \cup {"_has_fetched"},
                                !.has_fetched = p.value],
                  p.fetches, 0, 0, NoEntry)

\* HutomaObject.fullname: self.session.config.by_object[self.__class__]
\* and self.id
fullname(o) ==
    LET s == getattr(o, "session")
        i == getattr(o, "id")
    IN  IF s.exc # NoEntry THEN s
        ELSE IF by_object(o.cls) = NoEntry
        THEN Step("KeyError", o, 0, 0, 0, NoEntry)
        ELSE IF i.exc # NoEntry THEN i
        ELSE Step(NoEntry, i.obj, i.fetches, 0, 0, <<by_object(o.cls), i.obj.id>>)

\* HutomaObject.__eq__: isinstance(other, HutomaObject) and self.fullname
\* == other.fullname; other is an instance, or NoEntry for any other value
__eq__(o, other) ==
    IF other = NoEntry THEN Step(NoEntry, o, 0, 0, 0, FALSE)
    ELSE LET a == fullname(o)
             b == fullname(other)
         IN  IF a.exc # NoEntry THEN a
             ELSE IF b.exc # NoEntry THEN b
             ELSE Step(NoEntry, o, a.fetches + b.fetches, 0, 0, a.value = b.value)

\* HutomaObject.__ne__: not self == other
__ne__(o, other) ==
    LET e == __eq__(o, other)
    IN  IF e.exc # NoEntry THEN e ELSE [e EXCEPT !.value = ~e.value]

\* Editable.delete and Editable.edit, with the endpoint's key: the URL
\* is self.session.config[key], the body names self.fullname, request_json
\* sends the write (served says it succeeds), and the key of config['user']
\* is evicted
Write(o, key, served) ==
    LET s == getattr(o, "session")
        f == fullname(o)
    IN  IF s.exc # NoEntry THEN s
        ELSE IF Config__getitem__(key) # NoEntry
        THEN Step("KeyError", o, 0, 0, 0, NoEntry)
        ELSE IF f.exc # NoEntry THEN f
        ELSE IF ~served THEN Step("HTTPException", o, f.fetches, 1, 0, NoEntry)
        ELSE IF Config__getitem__("user") # NoEntry
        THEN Step("KeyError", o, f.fetches, 1, 0, NoEntry)
        ELSE Step(NoEntry, o, f.fetches, 1, 1, "payload")

delete(o, served) == Write(o, "del", served)

edit(o, served) == Write(o, "edit", served)

\* HUTOMA_KEYS = ('AIID') is the string 'AIID', no tuple: name in
\* HUTOMA_KEYS holds for every substring of it
HUTOMA_KEYS == {"", "A", "I", "D", "AI", "II", "ID", "AII", "IID", "AIID"}

\* The values set: a string, the empty string, '[deleted]' and the bool True
True == "<True>"

SetValues == {"abc", "", "[deleted]", True}

\* the reference object AI(self.session, value, fetch=False)
Reference == "<AI>"

\* object.__setattr__(self, name, value)
Store(o, name, value) ==
    Step(NoEntry, [o EXCEPT !.attrs = @ \cup {name}], 0, 0, 0, value)

\* HutomaObject.__setattr__: a truthy value under a name in HUTOMA_KEYS is
\* kept when it is a bool, becomes None when it is '[deleted]' and is
\* otherwise replaced by AI(self.session, value, fetch=False); every other
\* value, the empty one included, is stored as given
__setattr__(o, name, value) ==
    IF Truthy(value) /\ name \in HUTOMA_KEYS
    THEN IF value = True THEN Store(o, name, value)
         ELSE IF value = "[deleted]" THEN Store(o, name, NoEntry)
         ELSE LET s == getattr(o, "session")
                  c == __init__("AI", Payload(value), FALSE, FALSE)
              IN  IF s.exc # NoEntry THEN s
                  ELSE IF c.exc # NoEntry
                  THEN Step(c.exc, o, c.fetches, 0, 0, NoEntry)
                  ELSE [Store(o, name, Reference) EXCEPT !.fetches = c.fetches]
    ELSE Store(o, name, value)

\* An expression a program evaluates over domain objects, and its result.
\* op "read": cls(session, fetch=fetch[, info_url=u]) is built and the
\* attributes id and extra are read in turn; "eq" and "ne": cls(session,
\* {'id': id}) is compared with other_cls(session, {'id': other_id}), or
\* with a value that is no domain object (other_cls = NoEntry); "delete"
\* and "edit": the operation is called on cls(session, {'id': id}), the
\* server accepting the write or not (served).
Expr(op, cls, id, fetch, info_url, other_cls, other_id, served) ==
    [op |-> op, cls |-> cls, id |-> id, fetch |-> fetch, info_url |-> info_url,
     other_cls |-> other_cls, other_id |-> other_id, served |-> served,
     name |-> NoEntry, value |-> NoEntry,
     stage |-> "start", result |-> Step(NoEntry, NewObject(cls), 0, 0, 0, NoEntry)]

\* op "set": cls(session, {'id': id}) is built and its attribute name is
\* set to value
SetExpr(cls, id, name, value) ==
    [Expr("set", cls, id, FALSE, FALSE, NoEntry, NoEntry, FALSE) EXCEPT
        !.name = name, !.value = value]

NoExpr == Expr("none", "HutomaObject", NoEntry, FALSE, FALSE, NoEntry, NoEntry,
               FALSE)

\* The expression stopped at stage with the result r
Evaluated(e, stage, r) == [e EXCEPT !.stage = stage, !.result = r]

-----------------------------------------------------------------------------
(* The session and its calls *)

\* How a call ended: kind "return" or "raise" ("none" while it runs); exc the
\* exception raised; status the status of the response returned or carried
\* by the exception (_raw), 0 when there is none; value the body returned.
Outcome(kind, exc, status, value, warned) ==
    [kind |-> kind, exc |-> exc, status |-> status, value |-> value,
     warned |-> warned]

NoOutcome == Outcome("none", NoEntry, 0, EmptyBody, FALSE)

\* The arguments of a call, as passed (data before _prepare_request sets
\* defaults in it)
Call(entry, url, data, files, auth, raw, retry, method, as_objects) ==
    [entry |-> entry, url |-> url, data |-> data, files |-> files, auth |-> auth,
     raw_response |-> raw, retry_on_error |-> retry, method |-> method,
     as_objects |-> as_objects]

NoCall == Call("none", <<>>, NoData, FALSE, FALSE, FALSE, FALSE, NoEntry, FALSE)

\* _request, line 222: the attempts a call may make
Budget(retry_on_error) == IF retry_on_error THEN 3 ELSE 1

Init ==
    /\ cookies = EmptyJar
    /\ modhash = NoEntry
    /\ caller_map = EmptyDict
    /\ pc = "idle"
    /\ call = NoCall
    /\ request = NoRequest
    /\ remaining_attempts = 0
    /\ response = NoResponse
    /\ sent = NoSent
    /\ hist = <<>>
    /\ outcome = NoOutcome
    /\ obj = NoExpr
    /\ norm = NoNorm
    /\ config = Config

\* The values a caller passes as data: None, True, a string, a new dict or
\* the dict it already holds.
DataArgs ==
    {NoData, DataArg("true", EmptyDict), DataArg("raw", EmptyDict)}
      \cup {DataArg("map", d) : d \in FreshDicts \cup {caller_map}}

Methods == {NoEntry, "GET", "POST"}

\* The caller's dict after _prepare_request: the dict passed as data, with
\* the defaults set in it when the request is no GET (a caller that passes
\* no dict holds none).
CallerMapAfter(data, req) ==
    IF data.t # "map" THEN EmptyDict
    ELSE IF req.method = "GET" THEN data.m
    ELSE req.data.m

\* _request, lines 218-222: build the request, set the attempt budget
StartCall(entry, url, data, files, auth, raw, retry, method, as_objects) ==
    /\ pc \in {"idle", "done"}
    /\ request' = _prepare_request(modhash, url, data, auth, files, method)
    /\ caller_map' = CallerMapAfter(data, request')
    /\ call' = Call(entry, url, data, files, auth, raw, retry, method, as_objects)
    /\ remaining_attempts' = Budget(retry)
    /\ pc' = "send"
    /\ response' = NoResponse
    /\ sent' = NoSent
    /\ hist' = <<>>
    /\ outcome' = NoOutcome
    /\ UNCHANGED <<cookies, modhash, aux>>

\* BaseHutoma._request called directly for a write or an upload, without
\* retry; files and auth are not given together.
_request ==
    \E url \in StartUrls, data \in DataArgs, method \in {NoEntry},
       fa \in {<<FALSE, FALSE>>, <<TRUE, FALSE>>, <<FALSE, TRUE>>} :
        StartCall("_request", url, data, fa[1], fa[2], FALSE, FALSE, method, FALSE)

\* BaseHutoma.request: the raw response of a read
Request ==
    \E url \in StartUrls, retry \in BOOLEAN :
        StartCall("request", url, NoData, FALSE, FALSE, TRUE, retry, NoEntry, FALSE)

\* BaseHutoma.request_json called for a write, without retry
request_json ==
    \E url \in StartUrls, data \in DataArgs, method \in {NoEntry, "POST"},
       as_objects \in BOOLEAN :
        StartCall("request_json", url, data, FALSE, FALSE, FALSE, FALSE, method,
                  as_objects)

\* BaseHutoma.get_content: request_json with its defaults (retry, objects)
get_content ==
    \E url \in StartUrls :
        StartCall("request_json", url, NoData, FALSE, FALSE, FALSE, TRUE, NoEntry,
                  TRUE)

\* The call ends: it returns or raises
Finish(o) ==
    /\ pc' = "done"
    /\ outcome' = o

\* handle_redirect, lines 205-209: handler.request gets the prepared request
\* and answers with r
Exchange(r) ==
    /\ pc = "send"
    /\ sent' = Prepared(request, cookies)
    /\ response' = r

\* a retry loop that catches every exception
CaughtWhatever(exc) == TRUE

\* _request, line 233: except errors.HTTPException catches Forbidden,
\* NotFound and HTTPException itself, and no other exception
Caught(exc) == exc \in {"Forbidden", "NotFound", "HTTPException"}

\* handler.request raises (a timeout): no HTTPException, so it leaves
\* _request uncaught.  (Were it caught, line 236 would read error._raw, which
\* the transport's exception does not have.)
HandlerRaises ==
    \E r \in TimeoutReplies(request.url) :
        /\ Exchange(r)
        /\ r.timeout
        /\ IF Caught("Timeout")
           THEN /\ remaining_attempts' = remaining_attempts - 1
                /\ Finish(Outcome("raise", "AttributeError", 0, EmptyBody, FALSE))
           ELSE /\ UNCHANGED remaining_attempts
                /\ Finish(Outcome("raise", "Timeout", 0, EmptyBody, FALSE))
        /\ UNCHANGED <<cookies, modhash, caller_map, call, request, hist, aux>>

\* the assertion left out
RedirectAssertOff(url, request_url) == TRUE

\* handle_redirect, lines 214-215, on a 301/302/307: the Location header is
\* looked up (KeyError when absent) and resolved, the assertion compares
\* the new URL with request.url, and the loop goes on with the new URL.
RedirectAssert(url, request_url) == url # request_url

FollowRedirect ==
    \E r \in ResponseReplies(request.url) :
        /\ Exchange(r)
        /\ ~r.timeout
        /\ IsRedirect(r)
        /\ IF _raise_redirect_exceptions(r).exc # NoEntry
           THEN /\ Finish(Outcome("raise", _raise_redirect_exceptions(r).exc, 0,
                                  EmptyBody, FALSE))
                /\ UNCHANGED request
           ELSE LET url == _raise_redirect_exceptions(r).url
                IN  IF RedirectAssert(url, request.url)
                    THEN /\ request' = [request EXCEPT !.url = url]
                         /\ UNCHANGED <<pc, outcome>>
                    ELSE /\ Finish(Outcome("raise", "AssertionError", 0,
                                           EmptyBody, FALSE))
                         /\ UNCHANGED request
        /\ UNCHANGED <<cookies, modhash, caller_map, call, remaining_attempts,
                       hist, aux>>

\* an attempt that starts again from the URL the call was given
AttemptUrlOfCall(req, c) == c.url

\* handle_redirect, lines 200-202: an attempt starts from request.url, the
\* URL the Request object holds when the attempt begins
AttemptUrl(req, c) == req.url

\* ReRaise giving up one attempt early
ReRaiseEarly(status, remaining) == status \notin RETRY_CODES \/ remaining <= 1

\* ReRaise retrying whatever the status
ReRaiseAnyStatus(status, remaining) == remaining = 0

\* _request, lines 233-238: after an HTTPException, whether it is re-raised
ReRaise(status, remaining) == status \notin RETRY_CODES \/ remaining = 0

\* a failed attempt whose cookies are merged all the same
AttemptFailsMergingCookies ==
    \E r \in ResponseReplies(request.url) :
        /\ Exchange(r)
        /\ ~r.timeout
        /\ ~IsRedirect(r)
        /\ _raise_response_exceptions(r.status) # NoEntry
        /\ hist' = Append(hist, r.status)
        /\ remaining_attempts' = remaining_attempts - 1
        /\ IF ReRaise(r.status, remaining_attempts')
           THEN Finish(Outcome("raise", _raise_response_exceptions(r.status),
                               r.status, EmptyBody, FALSE))
           ELSE UNCHANGED <<pc, outcome>>
        /\ request' = [request EXCEPT !.url = AttemptUrl(request, call)]
        /\ cookies' = JarUpdate(cookies, r.cookies)
        /\ UNCHANGED <<modhash, caller_map, call, aux>>

\* The attempt ends with a response that _raise_response_exceptions rejects
AttemptFails ==
    \E r \in ResponseReplies(request.url) :
        /\ Exchange(r)
        /\ ~r.timeout
        /\ ~IsRedirect(r)
        /\ _raise_response_exceptions(r.status) # NoEntry
        /\ hist' = Append(hist, r.status)
        /\ remaining_attempts' = remaining_attempts - 1
        /\ IF ReRaise(r.status, remaining_attempts')
           THEN Finish(Outcome("raise", _raise_response_exceptions(r.status),
                               r.status, EmptyBody, FALSE))
           ELSE UNCHANGED <<pc, outcome>>
        /\ request' = [request EXCEPT !.url = AttemptUrl(request, call)]
        /\ UNCHANGED <<cookies, modhash, caller_map, call, aux>>

\* the test of line 305 left out
IsEmptyResponseNever(text) == FALSE

\* request_json, line 305: response == ''
IsEmptyResponse(text) == text.shape = "empty"

\* request_json, lines 301-315, on the text _request returned
RequestJsonResult(text, status, as_objects, mh) ==
    IF IsEmptyResponse(text)
    THEN [outcome |-> Outcome("return", NoEntry, status, text, FALSE),
          modhash |-> mh]
    ELSE LET data == JsonLoads(text, as_objects)
             upd == ModhashUpdate(data.val, mh)
         IN  IF data.exc # NoEntry
             THEN [outcome |-> Outcome("raise", data.exc, 0, EmptyBody, FALSE),
                   modhash |-> mh]
             ELSE IF upd.exc # NoEntry
             THEN [outcome |-> Outcome("raise", upd.exc, 0, EmptyBody, data.warned),
                   modhash |-> mh]
             ELSE [outcome |-> Outcome("return", NoEntry, status, data.val,
                                       data.warned),
                   modhash |-> upd.val]

\* the store left as it is
MergeCookiesNone(jar, resp) == jar

\* _request, line 227: the store after a successful attempt
MergeCookies(jar, resp) == JarUpdate(jar, resp.cookies)

\* _request, lines 226-231, and the caller's part after it: the response
\* passes the status mapping, its cookies are merged, and the response or
\* its decoded text is returned (to request_json, which parses it).
AttemptSucceeds ==
    \E r \in ResponseReplies(request.url) :
        /\ Exchange(r)
        /\ ~r.timeout
        /\ ~IsRedirect(r)
        /\ _raise_response_exceptions(r.status) = NoEntry
        /\ hist' = Append(hist, r.status)
        /\ cookies' = MergeCookies(cookies, r)
        /\ LET text == Decode(r.body)
               res == RequestJsonResult(text.val, r.status, call.as_objects,
                                        modhash)
           IN  IF call.raw_response
               THEN /\ Finish(Outcome("return", NoEntry, r.status, r.body, FALSE))
                    /\ UNCHANGED modhash
               ELSE IF text.exc # NoEntry
               THEN /\ Finish(Outcome("raise", text.exc, 0, EmptyBody, FALSE))
                    /\ UNCHANGED modhash
               ELSE IF call.entry = "request_json"
               THEN /\ Finish(res.outcome)
                    /\ modhash' = res.modhash
               ELSE /\ Finish(Outcome("return", NoEntry, r.status, text.val, FALSE))
                    /\ UNCHANGED modhash
        /\ config' = (IF /\ ~call.raw_response
                         /\ call.entry = "request_json"
                         /\ Decode(r.body).exc = NoEntry
                         /\ HookRuns(Decode(r.body).val, call.as_objects)
                      THEN ConfigAfterHook(config, Decode(r.body).val)
                      ELSE config)
        /\ UNCHANGED <<caller_map, call, request, remaining_attempts, obj, norm>>

\* _prepare_request on its own: the arguments are drawn in the initial
\* state, one step builds the request.
PrepareMethods == {NoEntry, "GET", "POST", "PUT"}

PrepareDicts == [DataKeys -> {NoEntry, "own"}]

PrepareData ==
    {NoData, DataArg("true", EmptyDict), DataArg("raw", EmptyDict)}
      \cup {DataArg("map", d) : d \in PrepareDicts}

InitPrepare ==
    /\ cookies \in Jars
    /\ modhash \in {NoEntry} \cup ModhashValues
    /\ pc = "prepare"
    /\ call \in {Call("_prepare_request", url, data, files, auth, FALSE, FALSE,
                      method, FALSE) :
                    url \in StartUrls, data \in PrepareData, files \in BOOLEAN,
                    auth \in BOOLEAN, method \in PrepareMethods}
    /\ caller_map = (IF call.data.t = "map" THEN call.data.m ELSE EmptyDict)
    /\ request = NoRequest
    /\ remaining_attempts = 0
    /\ response = NoResponse
    /\ sent = NoSent
    /\ hist = <<>>
    /\ outcome = NoOutcome
    /\ obj = NoExpr
    /\ norm = NoNorm
    /\ config = Config

PrepareStep ==
    /\ pc = "prepare"
    /\ request' = _prepare_request(modhash, call.url, call.data, call.auth,
                                 call.files, call.method)
    /\ caller_map' = CallerMapAfter(call.data, request')
    /\ pc' = "prepared"
    /\ UNCHANGED <<cookies, modhash, call, remaining_attempts, response, sent,
                   hist, outcome, aux>>

SpecPrepare == InitPrepare /\ [][PrepareStep]_vars

\* A session on which no call was made yet
Fresh ==
    /\ cookies = EmptyJar
    /\ modhash = NoEntry
    /\ caller_map = EmptyDict
    /\ call = NoCall
    /\ request = NoRequest
    /\ remaining_attempts = 0
    /\ response = NoResponse
    /\ sent = NoSent
    /\ hist = <<>>
    /\ outcome = NoOutcome
    /\ config = Config

\* normalize_url on its own: the URL is drawn in the initial state, each
\* step applies normalize_url to the last result.
InitNormalize ==
    /\ Fresh
    /\ pc = "normalize"
    /\ obj = NoExpr
    /\ norm \in {Norm(u, <<>>) : u \in UrlTexts}

NormalizeStep ==
    /\ pc = "normalize"
    /\ Len(norm.out) < 2
    /\ norm' = [norm EXCEPT
                   !.out = Append(@, normalize_url(IF @ = <<>> THEN norm.url
                                                   ELSE @[Len(@)]))]
    /\ UNCHANGED <<cookies, modhash, caller_map, pc, call, request,
                   remaining_attempts, response, sent, hist, outcome, obj,
                   config>>

SpecNormalize == InitNormalize /\ [][NormalizeStep]_vars

\* The expressions over domain objects
Exprs ==
    {Expr("read", c, i, f, u, NoEntry, NoEntry, FALSE) :
        c \in Classes, i \in Ids \cup {NoEntry}, f \in BOOLEAN, u \in BOOLEAN}
      \cup {SetExpr(c, i, n, v) :
                c \in Classes, i \in Ids, n \in {"AIID", "ID", "name"},
                v \in SetValues}
      \cup {Expr(op, c, i, FALSE, FALSE, oc, oi, FALSE) :
                op \in {"eq", "ne"}, c \in Classes, i \in Ids,
                oc \in Classes \cup {NoEntry}, oi \in Ids}
      \cup {Expr(op, c, i, FALSE, FALSE, NoEntry, NoEntry, sv) :
                op \in {"delete", "edit"}, c \in Editables, i \in Ids,
                sv \in BOOLEAN}

InitObjects ==
    /\ Fresh
    /\ pc = "eval"
    /\ obj \in Exprs
    /\ norm = NoNorm

\* The expression of obj is evaluated to e
Eval(e) ==
    /\ pc = "eval"
    /\ obj' = e
    /\ pc' = "evaluated"
    /\ UNCHANGED <<cookies, modhash, caller_map, call, request,
                   remaining_attempts, response, sent, hist, outcome, norm,
                   config>>

\* o = cls(session, {'id': id}); o.name = value
SetAttribute ==
    /\ obj.op = "set"
    /\ LET a == __init__(obj.cls, Payload(obj.id), FALSE, FALSE)
       IN  Eval(IF a.exc # NoEntry THEN Evaluated(obj, "construct", a)
                ELSE Evaluated(obj, "set",
                               __setattr__(a.obj, obj.name, obj.value)))

\* o = cls(session[, payload], fetch=...); o.id; o.extra: value holds the fetches of
\* the construction, of the first read and of the second
ReadAttributes ==
    /\ obj.op = "read"
    /\ LET c == __init__(obj.cls,
                         IF obj.id = NoEntry THEN NoPayload ELSE Payload(obj.id),
                         obj.fetch, obj.info_url)
           r1 == getattr(c.obj, "id")
           r2 == getattr(r1.obj, "extra")
       IN  Eval(IF c.exc # NoEntry THEN Evaluated(obj, "construct", c)
                ELSE IF r1.exc # NoEntry THEN Evaluated(obj, "first read", r1)
                ELSE Evaluated(obj, "second read",
                               [r2 EXCEPT !.fetches = c.fetches + r1.fetches + @,
                                          !.value = <<c.fetches, r1.fetches,
                                                      r2.fetches>>]))

\* cls(session, {'id': id}) == other, or != other
Compare ==
    /\ obj.op \in {"eq", "ne"}
    /\ LET a == __init__(obj.cls, Payload(obj.id), FALSE, FALSE)
           b == IF obj.other_cls = NoEntry THEN a
                ELSE __init__(obj.other_cls, Payload(obj.other_id), FALSE, FALSE)
           other == IF obj.other_cls = NoEntry THEN NoEntry ELSE b.obj
       IN  Eval(IF a.exc # NoEntry THEN Evaluated(obj, "construct", a)
                ELSE IF b.exc # NoEntry THEN Evaluated(obj, "construct", b)
                ELSE Evaluated(obj, "compare",
                               IF obj.op = "eq" THEN __eq__(a.obj, other)
                               ELSE __ne__(a.obj, other)))

\* cls(session, {'id': id}).delete()
Delete ==
    /\ obj.op = "delete"
    /\ LET a == __init__(obj.cls, Payload(obj.id), FALSE, FALSE)
       IN  Eval(IF a.exc # NoEntry THEN Evaluated(obj, "construct", a)
                ELSE Evaluated(obj, "delete", delete(a.obj, obj.served)))

\* cls(session, {'id': id}).edit(text)
Edit ==
    /\ obj.op = "edit"
    /\ LET a == __init__(obj.cls, Payload(obj.id), FALSE, FALSE)
       IN  Eval(IF a.exc # NoEntry THEN Evaluated(obj, "construct", a)
                ELSE Evaluated(obj, "edit", edit(a.obj, obj.served)))

NextObjects ==
    \/ ReadAttributes
    \/ SetAttribute
    \/ Compare
    \/ Delete
    \/ Edit

SpecObjects == InitObjects /\ [][NextObjects]_vars

Next ==
    \/ _request
    \/ Request
    \/ request_json
    \/ get_content
    \/ HandlerRaises
    \/ FollowRedirect
    \/ AttemptFails
    \/ AttemptSucceeds

Spec == Init /\ [][Next]_vars

\* A call in progress runs on: the client is sequential and blocks on the
\* handler, which answers every request.
FairSpec == Spec /\ WF_vars(HandlerRaises \/ FollowRedirect \/ AttemptFails \/ AttemptSucceeds)


-----------------------------------------------------------------------------
(* Properties *)

Last(seq) == seq[Len(seq)]

HTTPExceptions == {"Forbidden", "NotFound", "HTTPException"}

\* The call ended on the response that closed its last attempt (not on a
\* failure of the handler or of a redirect)
EndedOnStatus ==
    /\ pc = "done"
    /\ hist # <<>>
    /\ ~response.timeout
    /\ response.status = Last(hist)

\* C1: with retry enabled a call is re-attempted after 502/503/504 until an
\* attempt succeeds or 3 attempts were made; with retry disabled the first
\* such failure is raised.  A call still running has made fewer attempts
\* than its budget, all of them failed with a retryable status; a call that
\* raised on a retryable status has made exactly its budget of attempts,
\* and a call never makes more.
RetryPolicy ==
    LET budget == Budget(call.retry_on_error)
    IN  /\ pc = "send" =>
            /\ Len(hist) < budget
            /\ remaining_attempts = budget - Len(hist)
            /\ \A i \in 1..Len(hist) : hist[i] \in RETRY_CODES
        /\ pc = "done" =>
            /\ Len(hist) <= budget
            /\ \A i \in 1..(Len(hist) - 1) : hist[i] \in RETRY_CODES
            /\ (EndedOnStatus /\ Last(hist) \in RETRY_CODES) =>
                  /\ Len(hist) = budget
                  /\ outcome.kind = "raise"
                  /\ outcome.exc = "HTTPException"
                  /\ outcome.status = Last(hist)

\* 503, 503, 200: the call returns on its third attempt
RetryWitness ==
    /\ pc = "done"
    /\ call.retry_on_error
    /\ hist = <<503, 503, 200>>
    /\ outcome.kind = "return"

\* C2: a failed attempt whose status is not 502, 503 or 504 ends the call
\* with its exception: the step that receives such a response is the call's
\* last, whatever budget remains.
FailureStatuses == {s \in Statuses : s >= 400}

PropagatesImmediately ==
    [][(pc = "send" /\ response'.status \in FailureStatuses \ RETRY_CODES) =>
          /\ pc' = "done"
          /\ outcome'.kind = "raise"
          /\ outcome'.exc \in HTTPExceptions
          /\ outcome'.status = response'.status]_vars

\* a 404 after a retried 503, with one attempt left
PropagatesWitness ==
    /\ pc = "done"
    /\ hist = <<503, 404>>
    /\ remaining_attempts = 1
    /\ outcome.exc = "NotFound"


\* C3 as stated: 403 raises Forbidden, 404 NotFound, every other status
\* outside 200-299 the generic HTTPException with the raw response, and a
\* 2xx status raises nothing.
StatusMappingAsStated ==
    EndedOnStatus =>
        LET s == Last(hist)
        IN  /\ s = 403 => outcome.exc = "Forbidden"
            /\ s = 404 => outcome.exc = "NotFound"
            /\ (s \notin 200..299 /\ s \notin {403, 404}) =>
                  outcome.exc = "HTTPException" /\ outcome.status = s
            /\ s \in 200..299 => outcome.exc \notin HTTPExceptions

\* C3, amended: only the other statuses from 400 to 599 raise the generic
\* HTTPException; every status below 400 that ends an attempt (2xx, and
\* 304) raises nothing.
StatusMapping ==
    EndedOnStatus =>
        LET s == Last(hist)
        IN  /\ s = 403 => outcome.exc = "Forbidden" /\ outcome.status = s
            /\ s = 404 => outcome.exc = "NotFound" /\ outcome.status = s
            /\ (s \in 400..599 /\ s \notin {403, 404}) =>
                  outcome.exc = "HTTPException" /\ outcome.status = s
            /\ s \notin 400..599 => outcome.exc \notin HTTPExceptions

\* a 304 is returned to the caller
StatusMappingWitness ==
    /\ EndedOnStatus
    /\ Last(hist) = 304
    /\ outcome.kind = "return"
    /\ outcome.status = 304

\* a 404 raises NotFound
NotFoundWitness ==
    /\ EndedOnStatus
    /\ Last(hist) = 404
    /\ outcome.exc = "NotFound"

\* C4: every call terminates, whatever the handler answers, redirects
\* included.
Terminates == (pc = "send") ~> (pc = "done")

\* C5: a redirect whose Location resolves to the URL just requested ends
\* the call with an assertion failure, and no step of handle_redirect goes
\* on to request the same URL again.
RedirectResolved(resp) == urljoin(resp.url, resp.location)

RedirectLoopGuard ==
    [][/\ (pc = "send" /\ response'.status \in RedirectCodes
             /\ response'.location.present
             /\ RedirectResolved(response') = request.url) =>
           /\ pc' = "done"
           /\ outcome'.kind = "raise"
           /\ outcome'.exc = "AssertionError"
           /\ request' = request
       /\ (pc = "send" /\ pc' = "send" /\ hist' = hist) =>
           request'.url # request.url]_vars

\* the call died on a redirect to its own URL
RedirectLoopWitness ==
    /\ pc = "done"
    /\ response.status = 302
    /\ response.location.present
    /\ RedirectResolved(response) = sent.url
    /\ outcome.exc = "AssertionError"

\* C6: a 301, 302 or 307 is followed to the URL its Location resolves to,
\* within the same attempt, and is never the response the call ends on: no
\* attempt closes on a redirect status, and none is returned or carried by
\* an HTTPException.
RedirectFollowing ==
    /\ [](/\ \A i \in 1..Len(hist) : hist[i] \notin RedirectCodes
          /\ (pc = "done" /\ (outcome.kind = "return"
                               \/ outcome.exc \in HTTPExceptions)) =>
                /\ outcome.status \notin RedirectCodes
                /\ outcome.status = response.status)
    /\ [][(pc = "send" /\ response'.status \in RedirectCodes) =>
             /\ hist' = hist
             /\ remaining_attempts' = remaining_attempts
             /\ \/ /\ pc' = "send"
                   /\ request' = [request EXCEPT
                                     !.url = RedirectResolved(response')]
                \/ /\ pc' = "done"
                   /\ outcome'.exc \in {"KeyError", "AssertionError"}]_vars

\* a 307 was followed to another URL, and the call returned what came from there
RedirectFollowingWitness ==
    /\ pc = "done"
    /\ outcome.kind = "return"
    /\ outcome.status = 200
    /\ request.url # call.url
    /\ sent.url = request.url

\* C7: a redirect received for a request that is no GET ends the call with
\* RedirectException; the request is not sent on to the new URL.
RedirectOfNonGetRaises ==
    [][(pc = "send" /\ response'.status \in RedirectCodes
          /\ request.method # "GET") =>
            /\ pc' = "done"
            /\ outcome'.exc = "RedirectException"]_vars


\* C8: an explicit method is used as given; without one the method is POST
\* when a non-empty body or files are passed and GET when neither is.
NonEmptyBody(d) ==
    \/ d.t \in {"true", "raw"}
    \/ d.t = "map" /\ \E k \in DataKeys : d.m[k] # NoEntry

MethodSelection ==
    pc = "prepared" =>
        /\ call.method # NoEntry => request.method = call.method
        /\ (call.method = NoEntry /\ (NonEmptyBody(call.data) \/ call.files)) =>
              request.method = "POST"
        /\ (call.method = NoEntry /\ call.data = NoData /\ ~call.files) =>
              request.method = "GET"

\* files alone make the request a POST
MethodSelectionWitness ==
    /\ pc = "prepared"
    /\ call.method = NoEntry
    /\ call.data = NoData
    /\ call.files
    /\ request.method = "POST"

\* C9: a call that returns leaves every cookie of its last response in the
\* session's store, the store never loses a cookie, and every request the
\* handler receives carries the store as it is when the request is sent.
CookiesPersist ==
    /\ []((pc = "done" /\ outcome.kind = "return") =>
             \A c \in CookieNames :
                 response.cookies[c] # NoEntry => cookies[c] = response.cookies[c])
    /\ [][/\ \A c \in CookieNames : cookies[c] # NoEntry => cookies'[c] # NoEntry
          /\ pc = "send" => sent'.cookies = cookies]_vars

\* a later call sends the cookie an earlier call stored
CookiesPersistWitness ==
    /\ pc = "done"
    /\ outcome.kind = "return"
    /\ sent.cookies["c1"] = "v"
    /\ response.cookies["c1"] = NoEntry
    /\ cookies["c1"] = "v"

\* C10 as stated: a parsed mapping whose 'data' entry contains 'modhash'
\* makes that value the session's modhash, the next request that is no GET,
\* has a dict body and no auth carries it as 'uh', and any other payload
\* leaves the modhash alone.
ParsedByRequestJson ==
    /\ pc = "done"
    /\ call.entry = "request_json"
    /\ outcome.kind = "return"

ModhashAsStated ==
    /\ []((ParsedByRequestJson /\ HasModhash(outcome.value)) =>
             modhash = outcome.value.modhash)
    /\ []((pc = "send" /\ modhash # NoEntry /\ request.method # "GET"
             /\ request.data.t = "map" /\ ~request.auth) =>
             request.data.m["uh"] = modhash)
    /\ [][~(ParsedByRequestJson' /\ HasModhash(outcome'.value)) =>
             modhash' = modhash]_vars

\* C10, amended: the 'data' entry is a mapping with the key 'modhash'; the
\* next such request carries the modhash as 'uh' when the modhash is not
\* empty and the dict passed has no 'uh' of its own.
PassedWithoutUh ==
    \/ call.data.t = "true"
    \/ call.data.t = "map" /\ call.data.m["uh"] = NoEntry

ModhashUpdated ==
    /\ []((ParsedByRequestJson /\ HasModhash(outcome.value)) =>
             modhash = outcome.value.modhash)
    /\ []((pc = "send" /\ Truthy(modhash) /\ request.method # "GET"
             /\ request.data.t = "map" /\ ~request.auth /\ PassedWithoutUh) =>
             request.data.m["uh"] = modhash)
    /\ [][~(ParsedByRequestJson' /\ HasModhash(outcome'.value)) =>
             modhash' = modhash]_vars

\* the modhash a response set is sent as 'uh' by a later write
ModhashWitness ==
    /\ pc = "send"
    /\ modhash = "m2"
    /\ request.method = "POST"
    /\ PassedWithoutUh
    /\ request.data.m["uh"] = "m2"


\* The call's last attempt passed the status mapping
Succeeded ==
    /\ EndedOnStatus
    /\ _raise_response_exceptions(response.status) = NoEntry

\* the text of a body after every entity in it was replaced
EntitiesReplaced(body) ==
    IF body.ent = "none" THEN body ELSE [body EXCEPT !.ent = "decoded"]

\* C11: a successful _request returns the response itself when raw_response
\* is set, and otherwise the body text with every numeric and named HTML
\* entity replaced; the decoding raises nothing, whatever the text.
DecodedResult ==
    (Succeeded /\ call.entry \in {"_request", "request"}) =>
        /\ outcome.kind = "return"
        /\ outcome.value = IF call.raw_response THEN response.body
                           ELSE EntitiesReplaced(response.body)

\* C12: request_json on a successful response whose body is the empty
\* string returns that empty result, raises nothing and leaves the
\* session's modhash as it was.
EmptyBodyTolerated ==
    [][(pc = "send" /\ pc' = "done" /\ Succeeded'
          /\ call.entry = "request_json" /\ response'.body = EmptyBody) =>
            /\ outcome'.kind = "return"
            /\ outcome'.value = EmptyBody
            /\ modhash' = modhash]_vars

\* an empty 200 came back to request_json while the session held a modhash
EmptyBodyWitness ==
    /\ Succeeded
    /\ call.entry = "request_json"
    /\ response.status = 200
    /\ response.body = EmptyBody
    /\ outcome.kind = "return"
    /\ modhash = "m1"

\* request_json parsed, with the object hook, a successful response whose
\* body is the JSON object b
Materialized(b) ==
    /\ Succeeded
    /\ call.entry = "request_json"
    /\ call.as_objects
    /\ response.body = b
    /\ b.shape = "map"
    /\ b.ent = "none"

\* C13: a mapping whose 'kind' is registered is materialized as an object
\* of the registered class populated from its 'data' entry, and nothing is
\* raised: the call returns that object.
MaterializesRegistered ==
    \A b \in Bodies :
        (Materialized(b) /\ b.kind \in by_kind) =>
            /\ outcome.kind = "return"
            /\ outcome.value.kind = b.kind
            /\ outcome.value.data = b.data

\* the 'data' entry lets lines 313-314 pass (absent, or a mapping)
ModhashReadable(b) == b.data \in {NoEntry, "map"}

Unwrapped(b) == [b EXCEPT !.wrap = FALSE, !.sib = FALSE]

ButUrl(p) == [p EXCEPT !.url = NoUrl]

\* C19 as stated: every retry after a 502/503/504 goes to the URL of the
\* call's first attempt, with the method, headers and body of the request
\* sent before, also after a redirect was followed.
SameRequestAsStated ==
    [][(pc = "send" /\ response.status \in RETRY_CODES) =>
          /\ sent'.url = call.url
          /\ ButUrl(sent') = ButUrl(sent)]_vars

\* C19, amended: the first request of a call goes to the URL the call was
\* given; every later request of the call has the method, headers, body
\* and cookies of the one before; a retry goes to the URL the failed
\* attempt last requested, which is the target of the redirect when that
\* attempt followed one.
SameRequest ==
    [][pc = "send" =>
          /\ sent = NoSent => sent'.url = call.url
          /\ sent # NoSent => ButUrl(sent') = ButUrl(sent)
          /\ response.status \in RETRY_CODES =>
                sent' = sent /\ sent'.url = response.url]_vars

\* an attempt followed a redirect from a to b and failed there with 503:
\* the Request object holds b, where the retry to come is sent
SameRequestWitness ==
    /\ pc = "send"
    /\ hist = <<503>>
    /\ remaining_attempts = 2
    /\ response.status = 503
    /\ call.url = <<"a">>
    /\ sent.url = <<"b">>
    /\ request.url = <<"b">>

\* the dict a call passes as its body (data=True stands for an empty one)
Passed(d) == IF d.t = "map" THEN d.m ELSE EmptyDict

MapBodyNoAuth ==
    /\ pc = "prepared"
    /\ request.method # "GET"
    /\ call.data.t \in {"map", "true"}
    /\ ~call.auth

\* C20 as stated: a request that is no GET, has a mapping body and no
\* explicit auth is sent with api_type = 'json' and, when the session holds
\* a modhash, with 'uh' equal to it; with auth, or for a GET, no default is
\* injected.
InjectionAsStated ==
    /\ MapBodyNoAuth =>
          /\ request.data.m["api_type"] = "json"
          /\ modhash # NoEntry => request.data.m["uh"] = modhash
    /\ (pc = "prepared" /\ request.method = "GET") => request.data = NoData
    /\ (pc = "prepared" /\ request.method # "GET" /\ call.auth
           /\ call.data.t \in {"map", "true"}) =>
          request.data.m = Passed(call.data)

\* C20, amended: the defaults are set only where the mapping passed has no
\* entry of its own, and 'uh' only when the session's modhash is non-empty.
DefaultInjection ==
    /\ MapBodyNoAuth =>
          LET own == Passed(call.data)
          IN  /\ request.data.m["api_type"] =
                    (IF own["api_type"] # NoEntry THEN own["api_type"] ELSE "json")
              /\ request.data.m["uh"] =
                    (IF own["uh"] # NoEntry THEN own["uh"]
                     ELSE IF Truthy(modhash) THEN modhash ELSE NoEntry)
    /\ (pc = "prepared" /\ request.method = "GET") => request.data = NoData
    /\ (pc = "prepared" /\ request.method # "GET" /\ call.auth
           /\ call.data.t \in {"map", "true"}) =>
          request.data.m = Passed(call.data)

\* a body with its own api_type keeps it and gets the session's modhash
DefaultInjectionWitness ==
    /\ MapBodyNoAuth
    /\ modhash = "m1"
    /\ call.data.t = "map"
    /\ call.data.m["api_type"] = "own"
    /\ call.data.m["uh"] = NoEntry
    /\ request.data.m["api_type"] = "own"
    /\ request.data.m["uh"] = "m1"

\* C15: an object built with fetch=false and no payload is built without a
\* fetch; the first read of an unset attribute makes exactly one fetch and
\* sets the fields it returned; a later read of an attribute that is still
\* unset makes no fetch and raises AttributeError.
LazyPopulation ==
    (pc = "evaluated" /\ obj.op = "read" /\ ~obj.fetch /\ obj.id = NoEntry) =>
        /\ obj.stage = "second read"
        /\ obj.result.value = <<0, 1, 0>>
        /\ obj.result.exc = "AttributeError"
        /\ FetchedFields \subseteq obj.result.obj.attrs

\* C16: == between domain objects is TRUE exactly when kind and id agree,
\* FALSE against a value that is no domain object, and != is its negation.
EqualityByFullname ==
    (pc = "evaluated" /\ obj.op \in {"eq", "ne"}) =>
        LET same == obj.other_cls = obj.cls /\ obj.other_id = obj.id
        IN  /\ obj.result.exc = NoEntry
            /\ obj.result.value = (IF obj.op = "eq" THEN same ELSE ~same)

\* C17: delete() and edit(text) send exactly one write request, evict the
\* current user's cache key when, and only when, that request succeeded,
\* and edit returns the payload the server sent.
WriteThenEvict ==
    (pc = "evaluated" /\ obj.op \in {"delete", "edit"}) =>
        /\ obj.result.requests = 1
        /\ obj.result.evictions = (IF obj.served THEN 1 ELSE 0)
        /\ obj.served => obj.result.exc = NoEntry
        /\ (obj.served /\ obj.op = "edit") => obj.result.value = "payload"

\* C18: normalize_url(normalize_url(u)) = normalize_url(u) for every URL
NormalizeIdempotent ==
    Len(norm.out) = 2 => norm.out[2] = norm.out[1]

\* C21 as stated: an attempt that times out is retried while attempt
\* budget remains, and the timeout reaches the caller only when the
\* budget is used up.
TimeoutRetriedAsStated ==
    [][(pc = "send" /\ response'.timeout) =>
          IF remaining_attempts > 1
          THEN pc' = "send" /\ remaining_attempts' = remaining_attempts - 1
          ELSE pc' = "done" /\ outcome'.kind = "raise"]_vars

\* C21, amended: an attempt that times out is not retried: the timeout
\* leaves _request at once, whatever budget remains, and costs no attempt.
TimeoutSurfaces ==
    [][(pc = "send" /\ response'.timeout) =>
          /\ pc' = "done"
          /\ outcome'.kind = "raise"
          /\ outcome'.exc = "Timeout"
          /\ remaining_attempts' = remaining_attempts
          /\ hist' = hist]_vars

\* a 503 was retried, the timeout of the retry was not: two attempts of
\* the budget are left
TimeoutSurfacesWitness ==
    /\ pc = "done"
    /\ call.retry_on_error
    /\ hist = <<503>>
    /\ remaining_attempts = 2
    /\ response.timeout
    /\ outcome.exc = "Timeout"

\* C22: an object built from a non-empty payload makes no fetch when it is
\* built and none on any later read; the read of an attribute the payload
\* lacks raises AttributeError.
NeverRefetches ==
    (pc = "evaluated" /\ obj.op = "read" /\ obj.id # NoEntry) =>
        /\ obj.stage = "second read"
        /\ obj.result.value = <<0, 0, 0>>
        /\ obj.result.exc = "AttributeError"
        /\ obj.result.obj.has_fetched

\* C23: under the reserved name AIID a non-empty value other than
\* '[deleted]' is stored as a reference object, without a fetch, and an
\* empty or '[deleted]' value as None; under any other name the value is
\* stored as given.
ReservedKeyWrapped ==
    (pc = "evaluated" /\ obj.op = "set") =>
        /\ obj.stage = "set"
        /\ obj.result.exc = NoEntry
        /\ obj.result.fetches = 0
        /\ obj.result.value =
              (IF obj.name # "AIID" THEN obj.value
               ELSE IF obj.value \in {"", "[deleted]"} THEN NoEntry
               ELSE Reference)

\* by_object is the exact inverse of by_kind
IsInverse(g, f) ==
    /\ DOMAIN g = {f[k] : k \in DOMAIN f}
    /\ \A k \in DOMAIN f : g[f[k]] = k

\* C24: no operation on the session changes its configuration, and
\* by_object stays the exact inverse of by_kind.
ConfigFrozen ==
    /\ [][config' = config]_vars
    /\ [](IsInverse(config.by_object, config.by_kind))

\* the hook looked an unregistered kind up in by_kind, and the
\* configuration is the one the session was created with
ConfigFrozenWitness ==
    /\ Materialized(MapBody("zz", "map", "m2"))
    /\ outcome.kind = "return"
    /\ config = Config
    /\ "zz" \notin DOMAIN config.by_kind

\* the last response passed _raise_redirect_exceptions and
\* _raise_response_exceptions, so line 227 was reached
PassedStatusMapping ==
    /\ ~response.timeout
    /\ ~IsRedirect(response)
    /\ _raise_response_exceptions(response.status) = NoEntry

CallerMappingUnchanged ==
    [][(pc # "send" /\ pc' = "send" /\ call'.data.t = "map") =>
          /\ caller_map' = call'.data.m
          /\ (/\ request'.method # "GET"
              /\ ~call'.auth
              /\ Truthy(modhash)
              /\ call'.data.m["uh"] # "own") =>
                request'.data.m["uh"] = modhash]_vars

=============================================================================
